---- MODULE Spec2Model ----
(***************************************************************************)
(* A model of app.py: the photo cache of the memorial slideshow server.    *)
(*                                                                         *)
(* The Persistent Store is the SQLite file photos.db (tables photos and    *)
(* cache_info).  Every function opens its own connection; Python's sqlite3 *)
(* opens a transaction before the first DML statement and SQLite holds the *)
(* write lock from that statement to the commit, so save_photos_to_db is   *)
(* one transaction: readers see the committed tables only, and a second    *)
(* writer waits in the busy handler until the first has committed.         *)
(*                                                                         *)
(* Assumptions about the environment, stated once:                         *)
(*   - datetime.now() never runs backwards;                                *)
(*   - the Drive listing returns files with distinct ids, ordered by name  *)
(*     (the request asks orderBy='name'), every file carrying a name;      *)
(*   - the storage layer itself does not fail (no busy timeout, no full    *)
(*     disk).                                                              *)
(***************************************************************************)
EXTENDS Integers, Sequences, FiniteSets, TLC

(***************************************************************************)
(* Bounds of the model.                                                    *)
(***************************************************************************)
MaxThreads == 2
\* request-handling and refresh threads alive at once

MaxWorkers == 2
\* download worker threads alive at once

MaxRefreshers == 1
\* threads refreshing at once while download workers run

MaxFiles == 2
\* files in one remote listing

MaxPages == 2
\* pages of one remote listing

MaxTicks == 2
\* clock advances in one behaviour

SubSec == 2
\* clock resolution: instants per second

(***************************************************************************)
(* Program constants.                                                      *)
(***************************************************************************)
CACHE_DURATION_MINUTES == 10

\* the image files the Drive folder can hold; names are numbers, compared
\* as SQLite compares TEXT
DriveFile == {[id |-> "f1", name |-> 2], [id |-> "f2", name |-> 1]}

FileIds == {f.id : f \in DriveFile}

\* timedelta(minutes=CACHE_DURATION_MINUTES), in clock instants
TTL == CACHE_DURATION_MINUTES * 60 * SubSec

VARIABLES
    GOOGLE_API_KEY,          \* TRUE when the environment sets the key
    GOOGLE_DRIVE_FOLDER_ID,  \* TRUE when the folder id is non-empty
    now,                     \* datetime.now(), in instants of 1/SubSec second
    photos,                  \* table photos, committed rows in rowid order
    cache_info,              \* table cache_info: <<>> or <<last_updated>>
    lock,                    \* thread holding SQLite's write lock, 0 if none
    files,                   \* directory cached_images: file name -> content
    thr,                     \* request and refresh threads
    workers,                 \* download worker threads
    latest,                  \* history: the photo list of the non-empty
                             \* listing taken last, <<>> before the first
    gave_up                  \* history: the file ids for which a call of
                             \* download_image returned None

vars == <<GOOGLE_API_KEY, GOOGLE_DRIVE_FOLDER_ID, now, photos, cache_info,
          lock, files, thr, workers, latest, gave_up>>

Threads == 1..MaxThreads

Workers == 1..MaxWorkers

Refreshers == 1..MaxRefreshers

(***************************************************************************)
(* datetime <-> ISO text.  isoformat() writes the whole seconds and the    *)
(* fraction of a second; fromisoformat() reads them back.                  *)
(***************************************************************************)
isoformat(t) == <<t \div SubSec, t % SubSec>>

fromisoformat(s) == s[1] * SubSec + s[2]

\* int(x) of Python: truncation toward zero of a / b, b > 0
int(a, b) == IF a >= 0 THEN a \div b ELSE -((-a) \div b)

\* the clamp left out
max_unclamped(a, b) == b

max(a, b) == IF a >= b THEN a ELSE b

(***************************************************************************)
(* The remote listing.                                                     *)
(***************************************************************************)
\* what the Drive API can list: distinct ids, ordered by name
Listings ==
    UNION { { l \in [1..n -> DriveFile] :
                /\ \A i, j \in 1..n : i < j => l[i].id # l[j].id
                /\ \A i \in 1..(n - 1) : l[i].name <= l[i + 1].name }
            : n \in 0..MaxFiles }

\* the pages of listing l cut after the positions cut[1] <= cut[2] <= ...
PagesOf(l, cut) ==
    [k \in 1..(Len(cut) + 1) |->
        SubSeq(l, (IF k = 1 THEN 0 ELSE cut[k - 1]) + 1,
                  IF k = Len(cut) + 1 THEN Len(l) ELSE cut[k])]

Cuts(l) ==
    UNION { { c \in [1..n -> 0..Len(l)] :
                \A i \in 1..(n - 1) : c[i] <= c[i + 1] }
            : n \in 0..(MaxPages - 1) }

\* one run of the remote side: whether build() works, the pages the API
\* would return, the page whose request raises (0: none) and what it raises
Remotes ==
    UNION { { [build |-> TRUE, pages |-> PagesOf(l, c), fail |-> 0,
               error |-> "none"] : c \in Cuts(l) }
            \cup
            { [build |-> TRUE, pages |-> PagesOf(l, c), fail |-> f,
               error |-> e] :
                c \in Cuts(l), f \in 1..MaxPages,
                e \in {"HttpError", "Exception"} }
            : l \in Listings }
    \cup { [build |-> FALSE, pages |-> <<>>, fail |-> 0, error |-> "Exception"] }

\* the pagination loop dropping what it has when the request for a page
\* raises
RECURSIVE PaginateOrNothing(_, _, _)
PaginateOrNothing(remote, page, files_acc) ==
    IF page >= Len(remote.pages)
    THEN files_acc
    ELSE IF remote.fail = page + 1
         THEN <<>>
         ELSE PaginateOrNothing(remote, page + 1,
                                files_acc \o remote.pages[page + 1])

\* pagination loop: page is the number of the page fetched last, files the
\* accumulated list; a next page exists while the last one carried a token
RECURSIVE Paginate(_, _, _)
Paginate(remote, page, files_acc) ==
    IF page >= Len(remote.pages)
    THEN files_acc
    ELSE IF remote.fail = page + 1
         THEN files_acc
         ELSE Paginate(remote, page + 1, files_acc \o remote.pages[page + 1])

\* steps 1-5 without the check of the folder id
ListFilesAnyFolder(key, folder, remote) ==
    IF ~key THEN <<>>
    ELSE IF ~remote.build THEN <<>>
    ELSE IF remote.fail = 1 THEN <<>>
    ELSE Paginate(remote, 1, remote.pages[1])

\* steps 1-5 of fetch_photos_from_drive: the raw file list
ListFiles(key, folder, remote) ==
    IF ~key THEN <<>>
    ELSE IF ~folder THEN <<>>
    ELSE IF ~remote.build THEN <<>>
    ELSE IF remote.fail = 1 THEN <<>>
    ELSE Paginate(remote, 1, remote.pages[1])

\* whether the run of fetch_photos_from_drive met a failure: configuration
\* missing, build() raising, or the request for a page raising
RemoteFailed(key, folder, remote) ==
    \/ ~key
    \/ ~folder
    \/ ~remote.build
    \/ remote.fail \in 1..Len(remote.pages)

ImageUrl(file_id) == <<"/images/", file_id>>

\* step 6 building the list back to front
BuildPhotoListReversed(listed) ==
    [i \in 1..Len(listed) |->
        [id |-> listed[Len(listed) + 1 - i].id,
         name |-> listed[Len(listed) + 1 - i].name,
         url |-> ImageUrl(listed[Len(listed) + 1 - i].id)]]

\* step 6: the photo list, in listing order
BuildPhotoList(listed) ==
    [i \in 1..Len(listed) |->
        [id |-> listed[i].id, name |-> listed[i].name,
         url |-> ImageUrl(listed[i].id)]]

exists(dir, file_id) == file_id \in DOMAIN dir

\* step 6 with a negative cache: a file download_image gave up on is not
\* tried again
FilesToDownloadOnce(listed, dir) ==
    LET missing(f) == ~exists(dir, f.id) /\ f.id \notin gave_up
        sel == SelectSeq(listed, missing)
    IN  [i \in 1..Len(sel) |-> sel[i].id]

\* step 6: the files missing from the cache directory, in listing order
FilesToDownload(listed, dir) ==
    LET missing(f) == ~exists(dir, f.id)
        sel == SelectSeq(listed, missing)
    IN  [i \in 1..Len(sel) |-> sel[i].id]

(***************************************************************************)
(* The Persistent Store.                                                   *)
(***************************************************************************)
\* rows ordered by name; rows with equal names keep their rowid order
RECURSIVE InsertByName(_, _)
InsertByName(sorted, row) ==
    IF sorted = <<>> THEN <<row>>
    ELSE IF Head(sorted).name <= row.name
         THEN <<Head(sorted)>> \o InsertByName(Tail(sorted), row)
         ELSE <<row>> \o sorted

RECURSIVE OrderByName(_)
OrderByName(rows) ==
    IF rows = <<>> THEN <<>>
    ELSE InsertByName(OrderByName(SubSeq(rows, 1, Len(rows) - 1)),
                      rows[Len(rows)])

\* SELECT id, name, url FROM photos ORDER BY name
get_photos_from_db == OrderByName(photos)

\* SELECT last_updated FROM cache_info WHERE key = 'photos'; fetchone()
SelectLastUpdated == cache_info

\* should_refresh_cache comparing with >= in place of >
IsStaleAtTTL(result, t) ==
    IF result = <<>> THEN TRUE
    ELSE t - fromisoformat(result[1]) >= TTL

\* should_refresh_cache, from the row it read and the clock
IsStale(result, t) ==
    IF result = <<>> THEN TRUE
    ELSE t - fromisoformat(result[1]) > TTL

\* /api/photos: the cache_info block from the row read and the clock
CacheInfoBlock(result, t) ==
    IF result = <<>> THEN <<>>
    ELSE LET last_updated == fromisoformat(result[1])
             next_refresh == last_updated + TTL
             seconds_until_refresh == int(next_refresh - t, SubSec)
         IN  << [last_updated |-> isoformat(last_updated),
                 next_refresh |-> isoformat(next_refresh),
                 seconds_until_refresh |-> max(0, seconds_until_refresh)] >>

\* save_photos_to_db without the DELETE: the new rows follow the old ones
InsertedRowsNoDelete(table, new_photos) ==
    table \o [i \in 1..Len(new_photos) |->
                [id |-> new_photos[i].id, name |-> new_photos[i].name,
                 url |-> new_photos[i].url]]

\* save_photos_to_db: the table after DELETE FROM photos and the INSERTs
InsertedRows(table, new_photos) ==
    [i \in 1..Len(new_photos) |->
        [id |-> new_photos[i].id, name |-> new_photos[i].name,
         url |-> new_photos[i].url]]

NoResponse == [photos |-> <<>>, count |-> 0, cache_info |-> <<>>,
               success |-> FALSE]

\* the failure branch of api_refresh reporting no photos at all
FailedResponseZero(cached) ==
    [photos |-> <<>>, count |-> 0, cache_info |-> <<>>, success |-> FALSE]

\* api_refresh: the JSON of the two branches
RefreshedResponse(new_photos) ==
    [NoResponse EXCEPT !.success = TRUE, !.count = Len(new_photos)]

FailedResponse(cached) ==
    [NoResponse EXCEPT !.success = FALSE, !.count = Len(cached)]

\* api_photos: the JSON
PhotosResponse(served, result, t) ==
    [NoResponse EXCEPT !.photos = served, !.count = Len(served),
                       !.cache_info = CacheInfoBlock(result, t)]

(***************************************************************************)
(* Threads.  kind is the function the thread runs, pc the statement it is  *)
(* at, file_id the argument of serve_image.                                *)
(* path, calls, failed, started and pre are history: the branch            *)
(* get_photos took, the calls of fetch_photos_from_drive the thread has    *)
(* made, whether that call met a failure, whether the thread has started a *)
(* refresh thread, and the row count of photos when the request arrived.   *)
(***************************************************************************)
IdleThread == [kind |-> "idle", pc |-> "idle", path |-> "none",
               file_id |-> "none", photos |-> <<>>, stamp |-> <<>>,
               resp |-> NoResponse, calls |-> 0, failed |-> FALSE,
               started |-> FALSE, pre |-> 0]

IdleWorker == [pc |-> "idle", queue |-> <<>>, url |-> 0, content |-> <<>>]

\* the process starts on a new database: init_db made the empty tables
InitStore ==
    /\ GOOGLE_API_KEY \in BOOLEAN
    /\ GOOGLE_DRIVE_FOLDER_ID \in BOOLEAN
    /\ now = 0
    /\ photos = <<>>
    /\ cache_info = <<>>
    /\ lock = 0
    /\ thr = [t \in Threads |-> IdleThread]
    /\ workers = [w \in Workers |-> IdleWorker]
    /\ latest = <<>>
    /\ gave_up = {}

\* cached_images as mkdir(exist_ok=True) creates it
InitEmptyCache == InitStore /\ files = <<>>

\* cached_images as an earlier run left it, every image downloaded
Init == InitStore /\ files = [f \in FileIds |-> <<f, 1>>]

\* the clock is observed at instants 1/SubSec second or one TTL apart
Elapsed(t) == (t \div TTL) + (t % TTL)

Tick ==
    /\ Elapsed(now) < MaxTicks
    /\ \E d \in {1, TTL} : now' = now + d
    /\ UNCHANGED <<GOOGLE_API_KEY, GOOGLE_DRIVE_FOLDER_ID, photos, cache_info,
                   lock, files, thr, workers, latest, gave_up>>

\* a request for /api/photos arrives
api_photos(t) ==
    /\ thr[t].kind = "idle"
    /\ thr' = [thr EXCEPT ![t] = [IdleThread EXCEPT !.kind = "api_photos",
                                                    !.pc = "get_photos"]]
    /\ UNCHANGED <<GOOGLE_API_KEY, GOOGLE_DRIVE_FOLDER_ID, now, photos,
                   cache_info, lock, files, workers, latest, gave_up>>

\* a request for /api/refresh arrives
api_refresh(t) ==
    /\ thr[t].kind = "idle"
    /\ thr' = [thr EXCEPT ![t] = [IdleThread EXCEPT !.kind = "api_refresh",
                                                    !.pc = "fetch",
                                                    !.pre = Len(photos)]]
    /\ UNCHANGED <<GOOGLE_API_KEY, GOOGLE_DRIVE_FOLDER_ID, now, photos,
                   cache_info, lock, files, workers, latest, gave_up>>

\* get_photos of the earlier revisions: a stale cache is refreshed before
\* the response
get_photos_blocking(t) ==
    /\ thr[t].pc = "get_photos"
    /\ LET cached_photos == get_photos_from_db
           fresh == Len(cached_photos) > 0 /\ ~IsStale(SelectLastUpdated, now)
       IN  thr' = [thr EXCEPT
                ![t].photos = cached_photos,
                ![t].path = IF Len(cached_photos) > 0 THEN "cached"
                            ELSE "first_run",
                ![t].pc = IF fresh THEN "cache_info" ELSE "fetch"]
    /\ UNCHANGED <<GOOGLE_API_KEY, GOOGLE_DRIVE_FOLDER_ID, now, photos,
                   cache_info, lock, files, workers, latest, gave_up>>

\* get_photos: cached_photos = get_photos_from_db() and the branch on it
get_photos(t) ==
    /\ thr[t].pc = "get_photos"
    /\ LET cached_photos == get_photos_from_db
       IN  thr' = [thr EXCEPT
                ![t].photos = cached_photos,
                ![t].path = IF Len(cached_photos) > 0 THEN "cached"
                            ELSE "first_run",
                ![t].pc = IF Len(cached_photos) > 0 THEN "should_refresh"
                          ELSE "fetch"]
    /\ UNCHANGED <<GOOGLE_API_KEY, GOOGLE_DRIVE_FOLDER_ID, now, photos,
                   cache_info, lock, files, workers, latest, gave_up>>

\* get_photos: should_refresh_cache() reads last_updated and compares it
\* with datetime.now(); when it is true refresh_cache_async starts
\* refresh_worker in a new thread
should_refresh_cache(t) ==
    /\ thr[t].pc = "should_refresh"
    /\ IF IsStale(SelectLastUpdated, now)
       THEN \E u \in Threads :
               /\ thr[u].kind = "idle"
               /\ thr' = [thr EXCEPT
                      ![t].started = TRUE,
                      ![t].pc = "cache_info",
                      ![u] = [IdleThread EXCEPT !.kind = "refresh_worker",
                                                !.pc = "fetch"]]
       ELSE thr' = [thr EXCEPT ![t].pc = "cache_info"]
    /\ UNCHANGED <<GOOGLE_API_KEY, GOOGLE_DRIVE_FOLDER_ID, now, photos,
                   cache_info, lock, files, workers, latest, gave_up>>

\* get_photos returning the fetched list without saving it
AfterFetchNoSave(kind, fetched) ==
    IF kind = "api_photos" THEN "cache_info"
    ELSE IF Len(fetched) > 0 THEN "save"
    ELSE IF kind = "api_refresh" THEN "cached"
    ELSE "done"

\* the callers without their test of len(photos) > 0
AfterFetchAlwaysSave(kind, fetched) == "save"

\* where a thread goes after fetch_photos_from_drive returned fetched
AfterFetch(kind, fetched) ==
    IF Len(fetched) > 0 THEN "save"
    ELSE IF kind = "api_photos" THEN "cache_info"
    ELSE IF kind = "api_refresh" THEN "cached"
    ELSE "done"

\* photos = fetch_photos_from_drive(), with download_images_async, against
\* the run remote of the remote side
fetch_photos_from_drive_on(t, remote) ==
    /\ thr[t].pc = "fetch"
    /\ LET listed == ListFiles(GOOGLE_API_KEY, GOOGLE_DRIVE_FOLDER_ID, remote)
           photo_urls == BuildPhotoList(listed)
           files_to_download == FilesToDownload(listed, files)
       IN  /\ IF files_to_download # <<>>
              THEN \E w \in Workers :
                      /\ workers[w].pc = "idle"
                      /\ workers' = [workers EXCEPT ![w] =
                             [IdleWorker EXCEPT
                                 !.pc = "worker_check",
                                 !.queue = files_to_download]]
              ELSE UNCHANGED workers
           /\ thr' = [thr EXCEPT
                  ![t].photos = photo_urls,
                  ![t].calls = @ + 1,
                  ![t].failed = RemoteFailed(GOOGLE_API_KEY,
                                     GOOGLE_DRIVE_FOLDER_ID, remote),
                  ![t].pc = AfterFetch(thr[t].kind, photo_urls)]
           /\ latest' = IF photo_urls # <<>> THEN photo_urls ELSE latest
    /\ UNCHANGED <<GOOGLE_API_KEY, GOOGLE_DRIVE_FOLDER_ID, now, photos,
                   cache_info, lock, files, gave_up>>

fetch_photos_from_drive(t) ==
    \E remote \in Remotes : fetch_photos_from_drive_on(t, remote)

\* save_photos_to_db on a store that does not serialise its writers
save_begin_unlocked(t) ==
    /\ thr[t].pc = "save"
    /\ lock' = t
    /\ thr' = [thr EXCEPT ![t].stamp = isoformat(now), ![t].pc = "commit"]
    /\ UNCHANGED <<GOOGLE_API_KEY, GOOGLE_DRIVE_FOLDER_ID, now, photos,
                   cache_info, files, workers, latest, gave_up>>

\* save_photos_to_db up to the commit: DELETE FROM photos opens the
\* transaction and takes the write lock, the INSERTs and the INSERT OR
\* REPLACE of datetime.now() fill the transaction's copy of the tables
save_begin(t) ==
    /\ thr[t].pc = "save"
    /\ lock = 0
    /\ lock' = t
    /\ thr' = [thr EXCEPT ![t].stamp = isoformat(now), ![t].pc = "commit"]
    /\ UNCHANGED <<GOOGLE_API_KEY, GOOGLE_DRIVE_FOLDER_ID, now, photos,
                   cache_info, files, workers, latest, gave_up>>

\* a save that leaves the store alone when a later listing has been taken
save_commit_if_latest(t) ==
    /\ thr[t].pc = "commit"
    /\ photos' = IF thr[t].photos = latest
                 THEN InsertedRows(photos, thr[t].photos)
                 ELSE photos
    /\ cache_info' = IF thr[t].photos = latest THEN <<thr[t].stamp>>
                     ELSE cache_info
    /\ lock' = 0
    /\ thr' = [thr EXCEPT
           ![t].stamp = <<>>,
           ![t].resp = IF thr[t].kind = "api_refresh"
                       THEN RefreshedResponse(thr[t].photos)
                       ELSE @,
           ![t].pc = IF thr[t].kind = "api_photos" THEN "cache_info"
                     ELSE "done"]
    /\ UNCHANGED <<GOOGLE_API_KEY, GOOGLE_DRIVE_FOLDER_ID, now, files, workers,
                   latest, gave_up>>

\* save_photos_to_db without its INSERT OR REPLACE INTO cache_info
save_commit_no_timestamp(t) ==
    /\ thr[t].pc = "commit"
    /\ photos' = InsertedRows(photos, thr[t].photos)
    /\ lock' = 0
    /\ thr' = [thr EXCEPT
           ![t].stamp = <<>>,
           ![t].resp = IF thr[t].kind = "api_refresh"
                       THEN RefreshedResponse(thr[t].photos)
                       ELSE @,
           ![t].pc = IF thr[t].kind = "api_photos" THEN "cache_info"
                     ELSE "done"]
    /\ UNCHANGED <<GOOGLE_API_KEY, GOOGLE_DRIVE_FOLDER_ID, now, cache_info,
                   files, workers, latest, gave_up>>

\* save_photos_to_db on a connection in autocommit mode: the DELETE is
\* committed on its own before the rows are inserted
save_commit_autocommit(t) ==
    /\ thr[t].pc = "commit"
    /\ IF photos # <<>> /\ photos # InsertedRows(photos, thr[t].photos)
       THEN /\ photos' = <<>>
            /\ UNCHANGED <<cache_info, lock, thr>>
       ELSE /\ photos' = InsertedRows(photos, thr[t].photos)
            /\ cache_info' = <<thr[t].stamp>>
            /\ lock' = 0
            /\ thr' = [thr EXCEPT
                   ![t].stamp = <<>>,
                   ![t].resp = IF thr[t].kind = "api_refresh"
                               THEN RefreshedResponse(thr[t].photos)
                               ELSE @,
                   ![t].pc = IF thr[t].kind = "api_photos" THEN "cache_info"
                             ELSE "done"]
    /\ UNCHANGED <<GOOGLE_API_KEY, GOOGLE_DRIVE_FOLDER_ID, now, files, workers,
                   latest, gave_up>>

\* save_photos_to_db: conn.commit(), and the caller's return
save_commit(t) ==
    /\ thr[t].pc = "commit"
    /\ photos' = InsertedRows(photos, thr[t].photos)
    /\ cache_info' = <<thr[t].stamp>>
    /\ lock' = 0
    /\ thr' = [thr EXCEPT
           ![t].stamp = <<>>,
           ![t].resp = IF thr[t].kind = "api_refresh"
                       THEN RefreshedResponse(thr[t].photos)
                       ELSE @,
           ![t].pc = IF thr[t].kind = "api_photos" THEN "cache_info"
                     ELSE "done"]
    /\ UNCHANGED <<GOOGLE_API_KEY, GOOGLE_DRIVE_FOLDER_ID, now, files, workers,
                   latest, gave_up>>

\* api_refresh, the else branch: cached = get_photos_from_db()
api_refresh_failed(t) ==
    /\ thr[t].pc = "cached"
    /\ thr' = [thr EXCEPT
           ![t].resp = FailedResponse(get_photos_from_db),
           ![t].pc = "done"]
    /\ UNCHANGED <<GOOGLE_API_KEY, GOOGLE_DRIVE_FOLDER_ID, now, photos,
                   cache_info, lock, files, workers, latest, gave_up>>

\* api_photos after get_photos returned: the SELECT of last_updated, the
\* cache_info block from it and datetime.now(), and the JSON response
api_photos_respond(t) ==
    /\ thr[t].pc = "cache_info"
    /\ thr' = [thr EXCEPT
           ![t].resp = PhotosResponse(thr[t].photos, SelectLastUpdated, now),
           ![t].pc = "done"]
    /\ UNCHANGED <<GOOGLE_API_KEY, GOOGLE_DRIVE_FOLDER_ID, now, photos,
                   cache_info, lock, files, workers, latest, gave_up>>

\* the response is sent, or the refresh thread ends
thread_exit(t) ==
    /\ thr[t].pc = "done"
    /\ thr' = [thr EXCEPT ![t] = IdleThread]
    /\ UNCHANGED <<GOOGLE_API_KEY, GOOGLE_DRIVE_FOLDER_ID, now, photos,
                   cache_info, lock, files, workers, latest, gave_up>>

\* what /images/<file_id> answers
NotFound == [status |-> 404, body |-> <<>>]

FileResponse(dir, file_id) == [status |-> 200, body |-> dir[file_id]]

\* the ids a client can ask for: the ids of the photo records it was given
\* and one no listing ever carried
RequestIds == FileIds \cup {"f0"}

\* serve_image looking for the file under another name than the cache's
serve_image_other_path(t) ==
    /\ thr[t].kind = "idle"
    /\ \E file_id \in RequestIds :
          thr' = [thr EXCEPT ![t] =
              [IdleThread EXCEPT !.kind = "serve_image", !.file_id = file_id,
                                 !.resp = NotFound, !.pc = "done"]]
    /\ UNCHANGED <<GOOGLE_API_KEY, GOOGLE_DRIVE_FOLDER_ID, now, photos,
                   cache_info, lock, files, workers, latest, gave_up>>

\* a request for /images/<file_id> arrives: os.path.exists(cache_path) and
\* the 404 of the else branch
serve_image(t) ==
    /\ thr[t].kind = "idle"
    /\ \E file_id \in RequestIds :
          thr' = [thr EXCEPT ![t] =
              IF exists(files, file_id)
              THEN [IdleThread EXCEPT !.kind = "serve_image",
                                      !.file_id = file_id, !.pc = "send"]
              ELSE [IdleThread EXCEPT !.kind = "serve_image",
                                      !.file_id = file_id,
                                      !.resp = NotFound, !.pc = "done"]]
    /\ UNCHANGED <<GOOGLE_API_KEY, GOOGLE_DRIVE_FOLDER_ID, now, photos,
                   cache_info, lock, files, workers, latest, gave_up>>

\* serve_image: send_from_directory(CACHE_DIR, file_id) reads the file
send_from_directory(t) ==
    /\ thr[t].pc = "send"
    /\ thr' = [thr EXCEPT
           ![t].resp = FileResponse(files, thr[t].file_id),
           ![t].pc = "done"]
    /\ UNCHANGED <<GOOGLE_API_KEY, GOOGLE_DRIVE_FOLDER_ID, now, photos,
                   cache_info, lock, files, workers, latest, gave_up>>

(***************************************************************************)
(* The Background Downloader.                                              *)
(***************************************************************************)
\* the number of URL templates in urls_to_try
NumUrls == 3

\* what requests.get(url) can do: raise, or return a status and a body;
\* the body a template returns for a file is named by the file and template
Responses(file_id, url) ==
    { [raised |-> TRUE, status_code |-> 0, content |-> <<>>],
      [raised |-> FALSE, status_code |-> 404, content |-> <<file_id, url>>],
      [raised |-> FALSE, status_code |-> 200, content |-> <<>>],
      [raised |-> FALSE, status_code |-> 200, content |-> <<file_id, url>>] }

\* the directory after open(cache_path, 'wb'): the file exists and is empty
Opened(dir, file_id) ==
    [f \in (DOMAIN dir) \cup {file_id} |->
        IF f = file_id THEN <<>> ELSE dir[f]]

\* the directory after f.write(content)
Written(dir, file_id, content) == [dir EXCEPT ![file_id] = content]

\* the worker after the file at the head of its list is dealt with
NextFile(worker) ==
    IF Len(worker.queue) > 1
    THEN [IdleWorker EXCEPT !.pc = "worker_check",
                            !.queue = Tail(worker.queue)]
    ELSE IdleWorker

\* download_worker: the existence check of the loop
download_worker(w) ==
    /\ workers[w].pc = "worker_check"
    /\ workers' = [workers EXCEPT ![w] =
           IF ~exists(files, Head(workers[w].queue))
           THEN [@ EXCEPT !.pc = "download_image"]
           ELSE NextFile(@)]
    /\ UNCHANGED <<GOOGLE_API_KEY, GOOGLE_DRIVE_FOLDER_ID, now, photos,
                   cache_info, lock, files, thr, latest, gave_up>>

\* download_image without its own existence check
download_image_unchecked(w) ==
    /\ workers[w].pc = "download_image"
    /\ workers' = [workers EXCEPT ![w] = [@ EXCEPT !.pc = "get", !.url = 1]]
    /\ UNCHANGED <<GOOGLE_API_KEY, GOOGLE_DRIVE_FOLDER_ID, now, photos,
                   cache_info, lock, files, thr, latest, gave_up>>

\* download_image: skip if already cached
download_image(w) ==
    /\ workers[w].pc = "download_image"
    /\ workers' = [workers EXCEPT ![w] =
           IF exists(files, Head(workers[w].queue))
           THEN NextFile(@)
           ELSE [@ EXCEPT !.pc = "get", !.url = 1]]
    /\ UNCHANGED <<GOOGLE_API_KEY, GOOGLE_DRIVE_FOLDER_ID, now, photos,
                   cache_info, lock, files, thr, latest, gave_up>>

\* the test of the response with the length of the body left out
AcceptedAnyBody(response) ==
    /\ ~response.raised
    /\ response.status_code = 200

\* download_image: the response is used when requests.get returned it and
\* response.status_code == 200 and len(response.content) > 0
Accepted(response) ==
    /\ ~response.raised
    /\ response.status_code = 200
    /\ Len(response.content) > 0

\* download_image: requests.get(url) for the template at hand, answered by
\* response; after the last template the call returns None
download_get_on(w, response) ==
    /\ workers[w].pc = "get"
    /\ workers' = [workers EXCEPT ![w] =
           IF Accepted(response)
           THEN [@ EXCEPT !.pc = "open", !.content = response.content]
           ELSE IF workers[w].url < NumUrls
                THEN [@ EXCEPT !.url = @ + 1]
                ELSE NextFile(@)]
    /\ gave_up' = IF ~Accepted(response) /\ workers[w].url >= NumUrls
                  THEN gave_up \cup {Head(workers[w].queue)}
                  ELSE gave_up
    /\ UNCHANGED <<GOOGLE_API_KEY, GOOGLE_DRIVE_FOLDER_ID, now, photos,
                   cache_info, lock, files, thr, latest>>

download_get(w) ==
    /\ workers[w].pc = "get"
    /\ \E response \in Responses(Head(workers[w].queue), workers[w].url) :
          download_get_on(w, response)

\* download_image: open(cache_path, 'wb')
download_open(w) ==
    /\ workers[w].pc = "open"
    /\ files' = Opened(files, Head(workers[w].queue))
    /\ workers' = [workers EXCEPT ![w].pc = "write"]
    /\ UNCHANGED <<GOOGLE_API_KEY, GOOGLE_DRIVE_FOLDER_ID, now, photos,
                   cache_info, lock, thr, latest, gave_up>>

\* download_image: f.write(response.content), and the return
download_write(w) ==
    /\ workers[w].pc = "write"
    /\ files' = Written(files, Head(workers[w].queue), workers[w].content)
    /\ workers' = [workers EXCEPT ![w] = NextFile(@)]
    /\ UNCHANGED <<GOOGLE_API_KEY, GOOGLE_DRIVE_FOLDER_ID, now, photos,
                   cache_info, lock, thr, latest, gave_up>>

\* the Cache Coordinator and the HTTP handlers that use it
CoordinatorNext ==
    \/ Tick
    \/ \E t \in Threads :
          \/ api_photos(t)
          \/ api_refresh(t)
          \/ get_photos(t)
          \/ should_refresh_cache(t)
          \/ fetch_photos_from_drive(t)
          \/ save_begin(t)
          \/ save_commit(t)
          \/ api_refresh_failed(t)
          \/ api_photos_respond(t)
          \/ thread_exit(t)

\* the Background Downloader
DownloaderNext ==
    \E w \in Workers :
        \/ download_worker(w)
        \/ download_image(w)
        \/ download_get(w)
        \/ download_open(w)
        \/ download_write(w)

\* the image endpoint of the HTTP Surface
ImageNext ==
    \E t \in Threads :
        \/ serve_image(t)
        \/ send_from_directory(t)

Next == CoordinatorNext \/ DownloaderNext \/ ImageNext

(***************************************************************************)
(* Spec: the Cache Coordinator over a cache directory that already holds   *)
(* every image.  No thread of the coordinator reads a worker's state, and  *)
(* the photo list fetch_photos_from_drive returns does not depend on the   *)
(* directory, so the store and the responses behave the same whatever the  *)
(* downloader does.                                                        *)
(***************************************************************************)
Spec == Init /\ [][CoordinatorNext]_vars

(***************************************************************************)
(* DownloadSpec: forced refreshes and the download workers they start,     *)
(* over a cache directory that starts empty.  The clock stands still: no   *)
(* statement of fetch_photos_from_drive or of the downloader reads it.     *)
(***************************************************************************)
DownloadNext ==
    \/ \E t \in Refreshers :
          \/ api_refresh(t)
          \/ fetch_photos_from_drive(t)
          \/ save_begin(t)
          \/ save_commit(t)
          \/ api_refresh_failed(t)
          \/ thread_exit(t)
    \/ \E w \in Workers :
          \/ download_worker(w)
          \/ download_image(w)
          \/ download_get(w)
          \/ download_open(w)
          \/ download_write(w)

DownloadSpec == InitEmptyCache /\ [][DownloadNext]_vars

(***************************************************************************)
(* ListerSpec: forced refreshes alone, over whatever an earlier run left   *)
(* in the cache directory.  The download workers a listing starts do not   *)
(* get to run: what fetch_photos_from_drive returns depends on the remote  *)
(* side and the configuration only.                                        *)
(***************************************************************************)
ListerInit ==
    /\ InitStore
    /\ \E cached \in SUBSET FileIds : files = [f \in cached |-> <<f, 1>>]

ListerNext ==
    \E t \in Refreshers :
        \/ api_refresh(t)
        \/ fetch_photos_from_drive(t)
        \/ save_begin(t)
        \/ save_commit(t)
        \/ api_refresh_failed(t)
        \/ thread_exit(t)

ListerSpec == ListerInit /\ [][ListerNext]_vars

(***************************************************************************)
(* ImageSpec: image requests while a download worker runs.  It starts      *)
(* where a refresh over an empty cache directory has ended: the listing is *)
(* saved and download_images_async has started the worker for its files.   *)
(* The threads are scheduled fairly and every requests.get returns (it     *)
(* carries timeout=30), so a worker or a handler that can take its next    *)
(* step takes it.                                                          *)
(***************************************************************************)
ImageInit ==
    /\ GOOGLE_API_KEY = TRUE
    /\ GOOGLE_DRIVE_FOLDER_ID = TRUE
    /\ now = 0
    /\ lock = 0
    /\ files = <<>>
    /\ gave_up = {}
    /\ thr = [t \in Threads |-> IdleThread]
    /\ cache_info = <<isoformat(0)>>
    /\ \E listed \in Listings :
          /\ Len(listed) > 0
          /\ latest = BuildPhotoList(listed)
          /\ photos = InsertedRows(<<>>, BuildPhotoList(listed))
          /\ workers = [w \in Workers |->
                IF w = 1
                THEN [IdleWorker EXCEPT
                         !.pc = "worker_check",
                         !.queue = FilesToDownload(listed, <<>>)]
                ELSE IdleWorker]

ImageSpecNext ==
    \/ \E w \in Workers :
          \/ download_worker(w)
          \/ download_image(w)
          \/ download_get(w)
          \/ download_open(w)
          \/ download_write(w)
    \/ \E t \in Threads :
          \/ serve_image(t)
          \/ send_from_directory(t)
          \/ thread_exit(t)

ImageSpec ==
    /\ ImageInit
    /\ [][ImageSpecNext]_vars
    /\ \A w \in Workers :
          /\ WF_vars(download_worker(w))
          /\ WF_vars(download_image(w))
          /\ WF_vars(download_get(w))
          /\ WF_vars(download_open(w))
          /\ WF_vars(download_write(w))
    /\ \A t \in Threads :
          /\ WF_vars(send_from_directory(t))
          /\ WF_vars(thread_exit(t))

(***************************************************************************)
(* Vocabulary of the properties.                                           *)
(***************************************************************************)
\* thread t takes this step
Stepped(t) == thr'[t] # thr[t]

SortedByName(rows) ==
    \A i, j \in 1..Len(rows) : i < j => rows[i].name <= rows[j].name

\* the same records, whatever their order
SameRecords(a, b) ==
    /\ Len(a) = Len(b)
    /\ {a[i] : i \in 1..Len(a)} = {b[i] : i \in 1..Len(b)}

\* thread t is in a refresh cycle whose listing returned nothing
EmptyRefresh(t) == thr[t].calls = 1 /\ thr[t].photos = <<>>

\* thread t commits the transaction of save_photos_to_db in this step
Saves(t) == thr[t].pc = "commit" /\ thr'[t].pc # "commit"

LastUpdated == fromisoformat(cache_info[1])

(***************************************************************************)
(* C1.  A refresh cycle whose listing returned at least one item goes on   *)
(* to save_photos_to_db, and right after its commit the photos table holds *)
(* exactly the records of that listing, id, name and url as listed, and    *)
(* get_photos_from_db returns those records ordered by name.  This holds   *)
(* for the first-run refresh of get_photos, for refresh_worker and for     *)
(* /api/refresh alike.                                                     *)
(***************************************************************************)
C1_SaveStoresTheListing ==
    [][\A t \in Threads :
          /\ (thr[t].pc = "fetch" /\ Stepped(t) /\ thr'[t].photos # <<>>)
                => thr'[t].pc = "save"
          /\ Saves(t) =>
                /\ Len(thr[t].photos) >= 1
                /\ SameRecords(photos', thr[t].photos)
                /\ SameRecords(get_photos_from_db', thr[t].photos)
                /\ SortedByName(get_photos_from_db')]_vars

\* a background refresh has just saved a listing of two records over a
\* store that held something else
C1_Witness ==
    \E t \in Threads :
        /\ thr[t].kind = "refresh_worker"
        /\ thr[t].pc = "done"
        /\ Len(thr[t].photos) = 2
        /\ photos = thr[t].photos
        /\ now > 0

(***************************************************************************)
(* C2.  A refresh cycle whose listing returned zero items changes neither  *)
(* the photos table nor the cache_info record: no step of the thread, from *)
(* the return of the empty listing to the end of the cycle, writes the     *)
(* store.                                                                  *)
(***************************************************************************)
C2_EmptyRefreshLeavesStore ==
    [][\A t \in Threads :
          (Stepped(t) /\ (EmptyRefresh(t) \/ EmptyRefresh(t)'))
              => UNCHANGED <<photos, cache_info>>]_vars

\* a background refresh ended on an empty listing over a non-empty store
C2_Witness ==
    \E t \in Threads :
        /\ thr[t].kind = "refresh_worker"
        /\ thr[t].pc = "done"
        /\ thr[t].calls = 1
        /\ thr[t].photos = <<>>
        /\ ~thr[t].failed
        /\ Len(photos) = 2

C4_CachedBranchNeverBlocks ==
    [][\A t \in Threads :
          thr[t].kind = "api_photos" =>
             /\ (thr[t].pc = "get_photos" /\ Stepped(t) /\ photos # <<>>) =>
                   /\ thr'[t].path = "cached"
                   /\ SameRecords(thr'[t].photos, photos)
             /\ thr[t].path = "cached" =>
                   /\ thr[t].pc \in {"should_refresh", "cache_info", "done"}
                   /\ thr[t].calls = 0
                   /\ thr[t].pc = "should_refresh" =>
                         \/ ENABLED should_refresh_cache(t)
                         \/ \A u \in Threads : thr[u].kind # "idle"
                   /\ thr[t].pc = "cache_info" => ENABLED api_photos_respond(t)
                   /\ thr[t].pc = "done" => ENABLED thread_exit(t)
             /\ (thr[t].path = "cached" /\ Stepped(t)) =>
                   /\ thr'[t].kind = "api_photos" =>
                         thr'[t].photos = thr[t].photos
                   /\ thr'[t].pc = "done" =>
                         /\ thr'[t].resp.photos = thr[t].photos
                         /\ thr'[t].resp.count = Len(thr[t].photos)]_vars

\* a request answered from a stale cache while the refresh thread it
\* started is still waiting for the remote listing and another thread
\* would hold the write lock
C4_Witness ==
    \E t, u \in Threads :
        /\ thr[t].kind = "api_photos"
        /\ thr[t].path = "cached"
        /\ thr[t].pc = "done"
        /\ thr[t].started
        /\ thr[t].calls = 0
        /\ Len(thr[t].resp.photos) = 2
        /\ thr[u].kind = "refresh_worker"
        /\ thr[u].pc = "fetch"

(***************************************************************************)
(* C5.  On the cached branch get_photos starts a refresh thread exactly    *)
(* when now - last_updated > TTL at the staleness check, and calls         *)
(* fetch_photos_from_drive in neither case.                                *)
(***************************************************************************)
C5_RefreshStartedIffStale ==
    [][\A t \in Threads :
          (thr[t].pc = "should_refresh" /\ Stepped(t)) =>
             LET stale == cache_info # <<>> /\ now - LastUpdated > TTL
                 starts == \E u \in Threads :
                              /\ thr[u].kind = "idle"
                              /\ thr'[u].kind = "refresh_worker"
             IN  /\ starts <=> stale
                 /\ thr'[t].started <=> stale
                 /\ thr'[t].calls = 0
                 /\ thr'[t].pc = "cache_info"]_vars

\* a refresh thread has been started for a cache one instant past its TTL
C5_Witness ==
    \E t, u \in Threads :
        /\ thr[t].kind = "api_photos"
        /\ thr[t].pc = "cache_info"
        /\ thr[t].started
        /\ thr[u].kind = "refresh_worker"
        /\ thr[u].pc = "fetch"
        /\ cache_info # <<>>
        /\ now - LastUpdated = TTL + 1

(***************************************************************************)
(* C6.  When get_photos reads an empty store it calls                      *)
(* fetch_photos_from_drive before it responds.  If the listing has at      *)
(* least one item the thread commits the save of that list before it       *)
(* reaches the response, and the response carries that list; if the        *)
(* listing is empty or failed the response carries the empty list and no   *)
(* step of the request writes the store.                                   *)
(***************************************************************************)
C6_FirstRunFetchesBeforeResponding ==
    [][\A t \in Threads :
          thr[t].kind = "api_photos" =>
             /\ (thr[t].pc = "get_photos" /\ Stepped(t) /\ photos = <<>>) =>
                   /\ thr'[t].path = "first_run"
                   /\ thr'[t].pc = "fetch"
             /\ (thr[t].path = "first_run" /\ Stepped(t)) =>
                   /\ thr[t].pc = "fetch" => thr'[t].calls = 1
                   /\ (thr[t].calls = 1 /\ thr'[t].kind = "api_photos") =>
                         thr'[t].photos = thr[t].photos
                   /\ thr'[t].pc = "done" =>
                         /\ thr[t].calls = 1
                         /\ thr'[t].resp.photos = thr[t].photos
                   /\ (thr'[t].photos # <<>> /\ thr'[t].pc = "cache_info") =>
                         /\ Saves(t)
                         /\ photos' = thr'[t].photos
                   /\ EmptyRefresh(t) =>
                         /\ UNCHANGED <<photos, cache_info>>
                         /\ thr'[t].pc = "done" => thr'[t].resp.photos = <<>>]_vars

\* a first request answered with the two records it has just fetched and
\* saved
C6_Witness ==
    \E t \in Threads :
        /\ thr[t].kind = "api_photos"
        /\ thr[t].path = "first_run"
        /\ thr[t].pc = "done"
        /\ thr[t].calls = 1
        /\ Len(thr[t].resp.photos) = 2
        /\ photos = thr[t].resp.photos

(***************************************************************************)
(* C7.  Whatever the failure of the remote fetch (configuration missing,   *)
(* first page, a later page, an unexpected exception), the refresh that    *)
(* met it leaves the photos table and the cache_info record as they were.  *)
(***************************************************************************)
C7_AnyFailureKeepsStore ==
    [][\A t \in Threads :
          (Stepped(t) /\ thr[t].failed)
              => UNCHANGED <<photos, cache_info>>]_vars

(***************************************************************************)
(* C8, as claimed.  When /api/refresh gets nothing from the remote call    *)
(* the response says success:false with count equal to the number of rows  *)
(* photos held when the request arrived, also when a background refresh    *)
(* runs at the same time (here: refresh_worker has saved its list and has  *)
(* not yet ended).                                                         *)
(***************************************************************************)
C8_CountIsCountAtArrival ==
    \A t, u \in Threads :
        (/\ thr[t].kind = "api_refresh"
         /\ thr[t].pc = "done"
         /\ thr[t].failed
         /\ ~thr[t].resp.success
         /\ thr[u].kind = "refresh_worker"
         /\ thr[u].pc = "done"
         /\ thr[u].photos = photos)
            => thr[t].resp.count = thr[t].pre

(***************************************************************************)
(* C8, amended.  When /api/refresh gets nothing from the remote call it    *)
(* goes on to read the store, the response says success:false with count   *)
(* equal to the number of rows photos holds at that read, and no step of   *)
(* the request writes the photos table or the cache_info record.           *)
(***************************************************************************)
C8_CountIsCountAtRead ==
    [][\A t \in Threads :
          thr[t].kind = "api_refresh" =>
             /\ (thr[t].pc = "fetch" /\ Stepped(t) /\ thr'[t].photos = <<>>)
                   => thr'[t].pc = "cached"
             /\ (thr[t].pc = "cached" /\ Stepped(t)) =>
                   /\ thr'[t].pc = "done"
                   /\ ~thr'[t].resp.success
                   /\ thr'[t].resp.count = Len(photos)
             /\ (Stepped(t) /\ (EmptyRefresh(t) \/ EmptyRefresh(t)'))
                   => UNCHANGED <<photos, cache_info>>]_vars

\* a failed forced refresh reports the two rows a background refresh saved
\* while the request was waiting for the remote call
C8_Witness ==
    \E t \in Threads :
        /\ thr[t].kind = "api_refresh"
        /\ thr[t].pc = "done"
        /\ thr[t].failed
        /\ ~thr[t].resp.success
        /\ thr[t].resp.count = 2
        /\ thr[t].pre = 1
        /\ Len(photos) = 2
        /\ \E u \in Threads : thr[u].kind = "refresh_worker"

(***************************************************************************)
(* C9.  The photo list of every /api/photos response is ordered by name,   *)
(* on the cached branch and on the first-run branch.                       *)
(***************************************************************************)
C9_ServedListOrderedByName ==
    \A t \in Threads :
        (thr[t].kind = "api_photos" /\ thr[t].pc = "done")
            => SortedByName(thr[t].resp.photos)

\* two responses of two records each, one from the cached branch and one
\* from the first-run branch
C9_Witness ==
    \E t, u \in Threads :
        /\ thr[t].kind = "api_photos" /\ thr[u].kind = "api_photos"
        /\ thr[t].pc = "done" /\ thr[u].pc = "done"
        /\ thr[t].path = "cached" /\ thr[u].path = "first_run"
        /\ Len(thr[t].resp.photos) = 2
        /\ Len(thr[u].resp.photos) = 2

(***************************************************************************)
(* C10.  /api/photos returns a cache_info block exactly when the           *)
(* cache_info record exists; in it seconds_until_refresh is not negative   *)
(* and is the whole seconds of max(0, TTL - (now - last_updated)), and     *)
(* next_refresh is last_updated + TTL, last_updated being the stored       *)
(* value.                                                                  *)
(***************************************************************************)
C10_SecondsUntilRefresh ==
    [][\A t \in Threads :
          (thr[t].pc = "cache_info" /\ Stepped(t)) =>
             LET block == thr'[t].resp.cache_info
                 remaining == TTL - (now - LastUpdated)
                 clamped == IF remaining > 0 THEN remaining ELSE 0
             IN  /\ block = <<>> <=> cache_info = <<>>
                 /\ block # <<>> =>
                       /\ block[1].seconds_until_refresh >= 0
                       /\ block[1].seconds_until_refresh * SubSec <= clamped
                       /\ clamped < (block[1].seconds_until_refresh + 1) * SubSec
                       /\ fromisoformat(block[1].next_refresh)
                             = LastUpdated + TTL
                       /\ block[1].last_updated = cache_info[1]]_vars

\* a response sent after next_refresh (the cache saved at instant 0 was
\* found stale): the difference is negative and the block says 0
C10_Witness ==
    \E t \in Threads :
        /\ thr[t].kind = "api_photos"
        /\ thr[t].pc = "done"
        /\ thr[t].started
        /\ thr[t].resp.cache_info # <<>>
        /\ thr[t].resp.cache_info[1].last_updated = isoformat(0)
        /\ thr[t].resp.cache_info[1].seconds_until_refresh = 0

(***************************************************************************)
(* Vocabulary of the downloader's properties.                              *)
(***************************************************************************)
\* worker w takes this step
WorkerStepped(w) == workers'[w] # workers[w]

\* the file id worker w is dealing with
Current(w) == Head(workers[w].queue)

\* worker w is inside download_worker's loop
Busy(w) == workers[w].pc # "idle"

\* with this step worker w is done with the file it was dealing with
MovesOn(w) ==
    \/ ~Busy(w)'
    \/ /\ workers'[w].pc = "worker_check"
       /\ workers'[w].queue = Tail(workers[w].queue)

\* the file is there, written to the end
Complete(dir, file_id) == exists(dir, file_id) /\ dir[file_id] # <<>>

(***************************************************************************)
(* C11, as claimed.  When a call of the download step for a file id        *)
(* follows an earlier call for the same id that has returned (with None,   *)
(* or with the path of the file it found or wrote), the later call issues  *)
(* no network request and does not change the file.                        *)
(***************************************************************************)
C11_SecondCallIsNoOp ==
    [][\A w \in Workers :
          (/\ workers[w].pc \in {"worker_check", "download_image"}
           /\ WorkerStepped(w)
           /\ Current(w) \in gave_up \/ exists(files, Current(w)))
              => /\ workers'[w].pc # "get"
                 /\ files' = files]_vars

(***************************************************************************)
(* C11, amended.  A call of the download step for a file id that exists in *)
(* the File Cache, as it does after a call that wrote it, is a no-op: at   *)
(* either existence check the worker leaves the file and the directory as  *)
(* they are and moves on without a network request.  One call writes the   *)
(* file at most once: the write is its last step.                          *)
(***************************************************************************)
C11_CallOnCachedFileIsNoOp ==
    [][\A w \in Workers :
          /\ (/\ workers[w].pc \in {"worker_check", "download_image"}
              /\ WorkerStepped(w)
              /\ exists(files, Current(w)))
                 => /\ MovesOn(w)
                    /\ files' = files
          /\ (workers[w].pc = "write" /\ WorkerStepped(w)) => MovesOn(w)
          /\ (WorkerStepped(w) /\ files' # files)
                 => workers[w].pc \in {"open", "write"}]_vars

\* the first call for f2 has written the file and returned; a second call
\* for f2, started by a later refresh, is at its existence check
C11_Witness ==
    \E w, v \in Workers :
        /\ w # v
        /\ ~Busy(v)
        /\ workers[w].pc = "worker_check"
        /\ Current(w) = "f2"
        /\ Complete(files, "f2")
        /\ "f2" \notin gave_up

(***************************************************************************)
(* C12.  A request for /images/<id> is answered with status 404 exactly    *)
(* when no file named id is in the cache directory at its existence check, *)
(* and otherwise with status 200 and the bytes of the file.  No step       *)
(* removes a file from the directory, so once a request for an id has      *)
(* found the file every later request for that id finds it.  Once a        *)
(* download worker has the body for an id it writes the file, and a        *)
(* request that finds the file is answered with its bytes.                 *)
(***************************************************************************)
C12_ServeImage ==
    /\ [][/\ DOMAIN files \subseteq DOMAIN files'
          /\ \A t \in Threads :
                /\ (thr[t].kind = "idle" /\ thr'[t].kind = "serve_image") =>
                      /\ thr'[t].pc = "done" <=>
                            ~exists(files, thr'[t].file_id)
                      /\ thr'[t].pc = "done" => thr'[t].resp.status = 404
                      /\ thr'[t].pc # "done" => thr'[t].pc = "send"
                /\ (thr[t].pc = "send" /\ Stepped(t)) =>
                      /\ thr'[t].pc = "done"
                      /\ thr'[t].resp.status = 200
                      /\ thr'[t].resp.body = files[thr[t].file_id]]_vars
    /\ \A w \in Workers, f \in FileIds :
          (workers[w].pc = "open" /\ Current(w) = f) ~> Complete(files, f)
    /\ \A t \in Threads :
          thr[t].pc = "send" ~>
              (thr[t].pc = "done" /\ thr[t].resp.status = 200)

\* the request for f2 that was answered 404 before the download has been
\* made again after it and is answered with the bytes the worker wrote
C12_Witness ==
    \E t, u \in Threads :
        /\ thr[t].kind = "serve_image" /\ thr[u].kind = "serve_image"
        /\ thr[t].file_id = "f2" /\ thr[u].file_id = "f2"
        /\ thr[t].pc = "done" /\ thr[u].pc = "done"
        /\ thr[t].resp.status = 404
        /\ thr[u].resp.status = 200
        /\ thr[u].resp.body = files["f2"]
        /\ Complete(files, "f2")

\* the statements of its callers a thread can be at when
\* fetch_photos_from_drive has returned
AfterTheCall == {"save", "cache_info", "cached", "done"}

(***************************************************************************)
(* C13.  fetch_photos_from_drive never raises to its caller: every call    *)
(* returns a list and the caller goes on.  When the API key or the folder  *)
(* id is missing, when build() raises, or when the request for the first   *)
(* page raises HttpError or anything else, the list returned is empty and  *)
(* no download worker is started.                                          *)
(***************************************************************************)
C13_ListerNeverRaises ==
    [][\A t \in Refreshers :
          (thr[t].pc = "fetch" /\ Stepped(t)) =>
             /\ thr'[t].pc \in AfterTheCall
             /\ \A remote \in Remotes :
                   (/\ fetch_photos_from_drive_on(t, remote)
                    /\ \/ ~GOOGLE_API_KEY
                       \/ ~GOOGLE_DRIVE_FOLDER_ID
                       \/ ~remote.build
                       \/ remote.fail = 1)
                      => /\ thr'[t].photos = <<>>
                         /\ workers' = workers
                         /\ latest' = latest]_vars

\* with key and folder id set, a forced refresh over an empty cache
\* directory met a failure before any page arrived: it holds the empty
\* list and no worker runs
C13_Witness ==
    \E t \in Threads :
        /\ GOOGLE_API_KEY /\ GOOGLE_DRIVE_FOLDER_ID
        /\ thr[t].kind = "api_refresh"
        /\ thr[t].pc = "cached"
        /\ thr[t].failed
        /\ thr[t].photos = <<>>
        /\ files = <<>>
        /\ \A w \in Workers : ~Busy(w)

\* the number of pages of the run remote that arrive: all of them, or those
\* before the page whose request raises
Arrived(remote) ==
    IF remote.fail \in 1..Len(remote.pages)
    THEN remote.fail - 1
    ELSE Len(remote.pages)

\* the records of the first n pages, in page order: the record at position
\* i of page k comes after the records of the pages before k
RECURSIVE CountBefore(_, _)
CountBefore(remote, k) ==
    IF k <= 1 THEN 0
    ELSE CountBefore(remote, k - 1) + Len(remote.pages[k - 1])

IsPagesInOrder(list, remote, n) ==
    /\ Len(list) = CountBefore(remote, n + 1)
    /\ \A k \in 1..n : \A i \in 1..Len(remote.pages[k]) :
          LET at == list[CountBefore(remote, k) + i]
          IN  /\ at.id = remote.pages[k][i].id
              /\ at.name = remote.pages[k][i].name

(***************************************************************************)
(* C16.  With the configuration set and build() working, when the request *)
(* for page k > 1 raises, fetch_photos_from_drive returns exactly the      *)
(* records of the pages 1..k-1, in page order; when no request raises it   *)
(* returns the records of all pages, in page order.                        *)
(***************************************************************************)
C16_LaterPageFailureKeepsPages ==
    [][\A t \in Refreshers :
          (thr[t].pc = "fetch" /\ Stepped(t)) =>
             \A remote \in Remotes :
                (/\ fetch_photos_from_drive_on(t, remote)
                 /\ GOOGLE_API_KEY /\ GOOGLE_DRIVE_FOLDER_ID
                 /\ remote.build
                 /\ remote.fail # 1)
                   => IsPagesInOrder(thr'[t].photos, remote,
                                     Arrived(remote))]_vars

\* a listing lost its second page to an error after the first page had
\* brought one record: the call returned that record
C16_Witness ==
    \E t \in Refreshers :
        /\ thr[t].pc = "save"
        /\ thr[t].failed
        /\ Len(thr[t].photos) = 1

\* thread t is inside the transaction of save_photos_to_db
InSave(t) == thr[t].pc = "commit"

(***************************************************************************)
(* C14, as claimed.  The delete-and-bulk-insert of one refresh does not    *)
(* exclude that of another: a refresh that has its listing and is about to *)
(* save can start its DELETE while another refresh is between its own      *)
(* DELETE and its commit.                                                  *)
(***************************************************************************)
C14_SavesNotExcluded ==
    \A t, u \in Threads :
        (t # u /\ InSave(t) /\ thr[u].pc = "save") => ENABLED save_begin(u)

(***************************************************************************)
(* C14, amended.  Refreshes overlap, but their saves do not: at most one   *)
(* thread is inside the transaction of save_photos_to_db, and the photos   *)
(* table a reader sees changes only in the commit of a save, from what it  *)
(* held to the whole listing of the refresh that commits.  What            *)
(* get_photos reads is the table of that moment.                           *)
(***************************************************************************)
C14_ReadersSeeWholeListings ==
    [][/\ \A t, u \in Threads : (InSave(t) /\ InSave(u)) => t = u
       /\ photos' # photos =>
             \E t \in Threads :
                 /\ Saves(t)
                 /\ thr[t].calls = 1
                 /\ photos' = thr[t].photos
       /\ \A t \in Threads :
             (thr[t].pc = "get_photos" /\ Stepped(t)) =>
                 /\ SameRecords(thr'[t].photos, photos)
                 /\ photos' = photos]_vars

\* two refreshes overlap: one is inside its save with a listing that
\* differs from the stored one, the other waits with its own listing;
\* a reader at this moment is given the two records stored before
C14_Witness ==
    \E t, u \in Threads :
        /\ InSave(t)
        /\ thr[u].pc = "save"
        /\ thr[t].photos # photos
        /\ thr[u].photos # photos
        /\ thr[u].photos # thr[t].photos
        /\ Len(get_photos_from_db) = 2

\* worker w is inside download_image for the file file_id, past the
\* existence checks
Attempts(w, file_id) ==
    /\ workers[w].pc \in {"get", "open", "write"}
    /\ Current(w) = file_id

(***************************************************************************)
(* C15.  When two download workers attempt the same file id at once, a     *)
(* file of that id that exists in the cache directory holds the complete,  *)
(* non-empty body of one successful download, never an empty or partly     *)
(* written one.                                                            *)
(***************************************************************************)
C15_RaceIsNotCorrupting ==
    \A f \in FileIds :
        (/\ \E w, v \in Workers : w # v /\ Attempts(w, f) /\ Attempts(v, f)
         /\ exists(files, f))
            => Complete(files, f)

(***************************************************************************)
(* C17.  For a file that is not in the cache directory download_image      *)
(* starts with the first URL template and goes through the templates in    *)
(* order.  An attempt that raises, returns a status other than 200 or      *)
(* returns an empty body is skipped: the directory stays as it is and the  *)
(* next template is tried.  The first attempt that returns status 200 and  *)
(* a non-empty body ends the attempts: that body is written to the file    *)
(* named by the id and the call returns.  When the last template fails too *)
(* the call returns None and has not touched the directory.                *)
(***************************************************************************)
C17_FirstGoodTemplateIsWritten ==
    [][\A w \in Workers :
          /\ (/\ workers[w].pc = "download_image"
              /\ WorkerStepped(w)
              /\ ~exists(files, Current(w)))
                 => /\ workers'[w].pc = "get"
                    /\ workers'[w].url = 1
                    /\ files' = files
          /\ (workers[w].pc = "get" /\ WorkerStepped(w)) =>
                \A response \in Responses(Current(w), workers[w].url) :
                    download_get_on(w, response) =>
                       IF /\ ~response.raised
                          /\ response.status_code = 200
                          /\ response.content # <<>>
                       THEN /\ workers'[w].pc = "open"
                            /\ workers'[w].url = workers[w].url
                            /\ workers'[w].content = response.content
                            /\ gave_up' = gave_up
                       ELSE /\ files' = files
                            /\ IF workers[w].url < NumUrls
                               THEN /\ workers'[w].pc = "get"
                                    /\ workers'[w].url = workers[w].url + 1
                                    /\ workers'[w].queue = workers[w].queue
                                    /\ gave_up' = gave_up
                               ELSE /\ MovesOn(w)
                                    /\ Current(w) \in gave_up'
          /\ (workers[w].pc = "open" /\ WorkerStepped(w)) =>
                /\ workers'[w].pc = "write"
                /\ workers'[w].content = workers[w].content
                /\ exists(files', Current(w))
          /\ (workers[w].pc = "write" /\ WorkerStepped(w)) =>
                /\ files'[Current(w)] = workers[w].content
                /\ workers[w].content = <<Current(w), workers[w].url>>
                /\ MovesOn(w)]_vars

\* f2 holds the body of the third template, the first two attempts having
\* failed; for f1 all three failed and it is left absent
C17_Witness ==
    /\ exists(files, "f2")
    /\ files["f2"] = <<"f2", NumUrls>>
    /\ "f1" \in gave_up
    /\ ~exists(files, "f1")

\* the ids of a list of records, and of a list of ids
ListedIds(list) == {list[i].id : i \in 1..Len(list)}

Queued(queue) == {queue[i] : i \in 1..Len(queue)}

(***************************************************************************)
(* C18.  A refresh cycle whose listing carries ids that are not in the     *)
(* cache directory at that moment starts one download worker for exactly   *)
(* those ids, whether or not download_image gave up on them before; ids    *)
(* that are in the directory are not given to the worker; and when every   *)
(* listed id is in the directory no worker is started.                     *)
(***************************************************************************)
C18_NoNegativeCache ==
    [][\A t \in Refreshers :
          (thr[t].pc = "fetch" /\ Stepped(t)) =>
             LET absent == ListedIds(thr'[t].photos) \ DOMAIN files
             IN  IF absent = {}
                 THEN workers' = workers
                 ELSE \E w \in Workers :
                         /\ ~Busy(w)
                         /\ workers'[w].pc = "worker_check"
                         /\ Queued(workers'[w].queue) = absent
                         /\ Len(workers'[w].queue) = Cardinality(absent)
                         /\ \A v \in Workers \ {w} :
                               workers'[v] = workers[v]]_vars

\* the first cycle listed f2 and its worker gave up on it; the second
\* cycle has just listed f2 and f1 and started a worker for both
C18_Witness ==
    \E t \in Refreshers, w \in Workers :
        /\ thr[t].pc = "save"
        /\ ListedIds(thr[t].photos) = {"f1", "f2"}
        /\ ListedIds(photos) = {"f2"}
        /\ "f2" \in gave_up
        /\ files = <<>>
        /\ workers[w].pc = "worker_check"
        /\ workers[w].queue = <<"f2", "f1">>
        /\ \A v \in Workers \ {w} : ~Busy(v)

(***************************************************************************)
(* C19.  In every state the photos table holds rows exactly when the       *)
(* cache_info row of key 'photos' exists, and a get_photos that read a     *)
(* non-empty table finds the row when should_refresh_cache selects it.     *)
(***************************************************************************)
C19_PhotosIffCacheInfo ==
    /\ photos # <<>> <=> cache_info # <<>>
    /\ \A t \in Threads :
          thr[t].pc = "should_refresh" => SelectLastUpdated # <<>>

\* get_photos has read the rows a first-run refresh saved and is about to
\* select last_updated, while a forced refresh is inside its save
C19_Witness ==
    \E t, u \in Threads :
        /\ thr[t].kind = "api_photos"
        /\ thr[t].pc = "should_refresh"
        /\ thr[u].kind = "api_refresh"
        /\ InSave(u)
        /\ thr[u].photos # photos
        /\ Len(photos) = 2

\* thread t is in a refresh: it is calling fetch_photos_from_drive or has
\* a listing it has not yet committed
Refreshing(t) == thr[t].pc \in {"fetch", "save", "commit"}

\* thread t has ended a refresh that listed without failure and saved
Refreshed(t) ==
    /\ thr[t].kind \in {"api_refresh", "refresh_worker"}
    /\ thr[t].pc = "done"
    /\ thr[t].calls = 1
    /\ ~thr[t].failed
    /\ thr[t].photos # <<>>

(***************************************************************************)
(* C20, as claimed.  Once no refresh is in progress the photos table holds *)
(* the item set of the non-empty listing that was taken last (here: after  *)
(* two refreshes that both listed without failure, saved and ended).       *)
(***************************************************************************)
C20_LatestListingWins ==
    (/\ \A t \in Threads : ~Refreshing(t)
     /\ \E t, u \in Threads : t # u /\ Refreshed(t) /\ Refreshed(u))
        => SameRecords(photos, latest)

(***************************************************************************)
(* C20, amended.  Overlapping refreshes are ordered by their commits, not  *)
(* by their listings: every commit replaces the photos table with the      *)
(* listing of the refresh that commits and sets last_updated to the time   *)
(* its save began, whether or not a later listing has been taken          *)
(* meanwhile, and nothing else changes the table.  The table ends up with  *)
(* the listing taken last when the refresh that took it commits last.      *)
(***************************************************************************)
C20_LastCommitWins ==
    [][/\ \A t \in Threads :
             Saves(t) =>
                /\ SameRecords(photos', thr[t].photos)
                /\ cache_info' = <<thr[t].stamp>>
                /\ thr[t].photos = latest => SameRecords(photos', latest')
       /\ (\A t \in Threads : ~Saves(t)) => UNCHANGED <<photos, cache_info>>
       /\ \A t \in Threads :
             (thr[t].pc = "fetch" /\ Stepped(t) /\ thr'[t].photos # <<>>)
                 => latest' = thr'[t].photos]_vars

\* two refreshes have ended; the one that listed first committed last, and
\* the table holds its listing, not the one taken last
C20_Witness ==
    \E t, u \in Threads :
        /\ t # u
        /\ Refreshed(t) /\ Refreshed(u)
        /\ latest = thr[u].photos
        /\ photos = thr[t].photos
        /\ ~SameRecords(photos, latest)

====
